---- MODULE Spec2Model ----
(***************************************************************************)
(* A model of the Bunny CDN storage client (src/src/client.ts) and of its  *)
(* URL helpers (src/src/utils.ts).  JavaScript strings are TLA+ strings;   *)
(* JavaScript values that may be absent are tagged records.                *)
(***************************************************************************)
EXTENDS Integers, Sequences, FiniteSets, TLC

(***************************************************************************)
(* Bounds of the model.                                                    *)
(***************************************************************************)
\* how many pieces a url / base given to the URL helpers is made of
MaxUrlPieces == 3
\* how many pieces a path given to buildHTTPSUrl is made of
MaxPathPieces == 2
\* how many elements a JSON array answered to listFiles holds
MaxFiles == 2
\* how many distinct readings the clock behind `new Date()` gives
MaxClock == 2

(***************************************************************************)
(* String primitives of the JavaScript runtime used by the source.         *)
(***************************************************************************)
\* String.prototype.startsWith
StartsWith(s, p) == Len(s) >= Len(p) /\ SubSeq(s, 1, Len(p)) = p

\* String.prototype.endsWith
EndsWith(s, p) == Len(s) >= Len(p) /\ SubSeq(s, Len(s) - Len(p) + 1, Len(s)) = p

\* String.prototype.indexOf, 1-based; 0 when p does not occur in s
IndexOf(s, p) ==
    LET hits == {i \in 1..(Len(s) - Len(p) + 1) : SubSeq(s, i, i + Len(p) - 1) = p}
    IN IF hits = {} THEN 0 ELSE CHOOSE i \in hits : \A j \in hits : i <= j

\* String.prototype.replace with a string pattern: the first occurrence only
Replace(s, p, r) ==
    LET i == IndexOf(s, p)
    IN IF i = 0 THEN s
       ELSE SubSeq(s, 1, i - 1) \o r \o SubSeq(s, i + Len(p), Len(s))

\* String.prototype.includes
Includes(s, p) == IndexOf(s, p) # 0

\* String.prototype.split with a one-character separator
RECURSIVE Split(_, _)
Split(s, sep) ==
    LET i == IndexOf(s, sep)
    IN IF i = 0 THEN <<s>>
       ELSE <<SubSeq(s, 1, i - 1)>> \o Split(SubSeq(s, i + 1, Len(s)), sep)

(***************************************************************************)
(* src/src/utils.ts                                                        *)
(***************************************************************************)
\* a plausible slip: every url without "https://" gets the prefix prepended
ensureHTTPS_prepend(url) ==
    IF url = "" THEN url
    ELSE IF ~StartsWith(url, "https://") THEN "https://" \o url
    ELSE url

ensureHTTPS(url) ==
    IF url = "" THEN url
    ELSE IF StartsWith(url, "http://") THEN Replace(url, "http://", "https://")
    ELSE IF ~StartsWith(url, "https://") /\ ~StartsWith(url, "http://")
         THEN "https://" \o url
    ELSE url

\* baseUrl.replace(/\/$/, '')
RemoveTrailingSlash(s) == IF EndsWith(s, "/") THEN SubSeq(s, 1, Len(s) - 1) ELSE s

\* path.replace(/^\//, '')
RemoveLeadingSlash(s) == IF StartsWith(s, "/") THEN SubSeq(s, 2, Len(s)) ELSE s

\* a plausible slip: the joining slash is left out when the path is empty
buildHTTPSUrl_nojoin(baseUrl, path) ==
    LET cleanBaseUrl == RemoveTrailingSlash(baseUrl)
        cleanPath    == RemoveLeadingSlash(path)
    IN ensureHTTPS(IF cleanPath = "" THEN cleanBaseUrl
                   ELSE cleanBaseUrl \o "/" \o cleanPath)

buildHTTPSUrl(baseUrl, path) ==
    LET cleanBaseUrl == RemoveTrailingSlash(baseUrl)
        cleanPath    == RemoveLeadingSlash(path)
        fullUrl      == cleanBaseUrl \o "/" \o cleanPath
    IN ensureHTTPS(fullUrl)

(***************************************************************************)
(* JavaScript values.  A value that may be absent carries a tag.           *)
(***************************************************************************)
Undefined == [tag |-> "undefined"]
Null      == [tag |-> "null"]
Str(s)    == [tag |-> "string", v |-> s]
Num(n)    == [tag |-> "number", v |-> n]
Bool(b)   == [tag |-> "boolean", v |-> b]
NaN       == [tag |-> "NaN"]
Obj(f)    == [tag |-> "object", fields |-> f]
\* new Date(x) keeps what it was built from; new Date() reads the clock
DateOf(x) == [tag |-> "date", of |-> x]

\* ToBoolean
Truthy(x) ==
    CASE x.tag = "undefined" -> FALSE
      [] x.tag = "null"      -> FALSE
      [] x.tag = "string"    -> x.v # ""
      [] x.tag = "NaN"       -> FALSE
      [] x.tag = "number"    -> x.v # 0
      [] x.tag = "boolean"   -> x.v
      [] OTHER               -> TRUE

\* x || y
OrElse(x, y) == IF Truthy(x) THEN x ELSE y

\* `${x}` for the values the model passes: a string or undefined
TemplateStr(x) == IF x.tag = "string" THEN x.v ELSE x.tag

\* file.key on a value that is neither null nor undefined
Prop(x, key) ==
    IF x.tag = "object" /\ key \in DOMAIN x.fields THEN x.fields[key] ELSE Undefined

\* Headers.get: null when the header is absent
HeadersGet(headers, key) ==
    IF key \in DOMAIN headers THEN Str(headers[key]) ELSE Null

Digits == <<"0", "1", "2", "3", "4", "5", "6", "7", "8", "9">>

DigitValue(c) == (CHOOSE i \in 1..Len(Digits) : Digits[i] = c) - 1

IsDigit(c) == \E i \in 1..Len(Digits) : Digits[i] = c

\* parseInt(s, 10) on an unsigned string: the leading digits, NaN when none
RECURSIVE ParseDigits(_, _, _)
ParseDigits(s, i, acc) ==
    IF i > Len(s) \/ ~IsDigit(SubSeq(s, i, i)) THEN acc
    ELSE ParseDigits(s, i + 1, acc * 10 + DigitValue(SubSeq(s, i, i)))

parseInt(s) ==
    IF Len(s) = 0 \/ ~IsDigit(SubSeq(s, 1, 1)) THEN NaN ELSE Num(ParseDigits(s, 1, 0))

(***************************************************************************)
(* Completions of a piece of code, thrown values, and what a method does   *)
(* when it reaches a point where it waits.                                 *)
(***************************************************************************)
Return(v) == [kind |-> "return", value |-> v]
Throw(e)  == [kind |-> "throw", error |-> e]
\* the method calls fetch(url, init) and waits for it
Fetch(r)  == [kind |-> "fetch", request |-> r]
\* the method calls another method of the client and waits for it
Call(m, a) == [kind |-> "call", method |-> m, args |-> a]

ErrorObj(msg) == [isError |-> TRUE, message |-> msg]
\* a thrown value that is not an instance of Error
NonError == [isError |-> FALSE]
TypeError(what) == ErrorObj("TypeError: " \o what)

\* error instanceof Error ? error.message : fallback
MessageOf(error, fallback) == IF error.isError THEN error.message ELSE fallback

\* Response.ok
ResponseOk(response) == response.status >= 200 /\ response.status <= 299

\* `${response.status} ${response.statusText}`
StatusLine(response) == ToString(response.status) \o " " \o response.statusText

NoHeaders == [k \in {} |-> ""]

(***************************************************************************)
(* src/src/client.ts: the constructor                                      *)
(***************************************************************************)
\* a plausible slip: pullZoneUrl is not checked
constructor_forgets(config) ==
    IF ~Truthy(config.storageZone) \/ ~Truthy(config.apiKey) \/ ~Truthy(config.cdnUrl)
    THEN Throw(ErrorObj("Missing Bunny CDN configuration. All fields (storageZone, apiKey, cdnUrl, pullZoneUrl) are required."))
    ELSE Return(config)

\* returns the configuration the new client holds, or throws
constructor(config) ==
    IF ~Truthy(config.storageZone) \/ ~Truthy(config.apiKey)
       \/ ~Truthy(config.cdnUrl) \/ ~Truthy(config.pullZoneUrl)
    THEN Throw(ErrorObj("Missing Bunny CDN configuration. All fields (storageZone, apiKey, cdnUrl, pullZoneUrl) are required."))
    ELSE Return(config)

(***************************************************************************)
(* uploadBuffer(buffer, path, contentType = 'image/jpeg')                  *)
(***************************************************************************)
uploadBuffer_begin(config, buffer, path, contentType) ==
    LET uploadUrl == buildHTTPSUrl(config.cdnUrl.v,
                                   config.storageZone.v \o "/" \o TemplateStr(path))
        ct == IF contentType = Undefined THEN Str("image/jpeg") ELSE contentType
    IN Fetch([method  |-> "PUT",
              url     |-> uploadUrl,
              headers |-> ("AccessKey" :> config.apiKey.v) @@ ("Content-Type" :> ct.v),
              body    |-> buffer])

\* the try block after the fetch has settled with t
uploadBuffer_try(config, path, t) ==
    IF t.kind = "throw" THEN Throw(t.error)
    ELSE IF ~ResponseOk(t.response)
    THEN Return([success |-> FALSE,
                 error   |-> "Upload failed: " \o StatusLine(t.response)])
    ELSE IF path.tag # "string" THEN Throw(TypeError("path.replace is not a function"))
    ELSE Return([success |-> TRUE,
                 url     |-> buildHTTPSUrl(config.pullZoneUrl.v, path.v)])

\* a plausible slip: the status is not looked at
uploadBuffer_anystatus(config, path, t) ==
    IF t.kind = "throw"
    THEN Return([success |-> FALSE, error |-> MessageOf(t.error, "Unknown upload error")])
    ELSE IF path.tag # "string"
    THEN Return([success |-> FALSE, error |-> "TypeError: path.replace is not a function"])
    ELSE Return([success |-> TRUE, url |-> buildHTTPSUrl(config.pullZoneUrl.v, path.v)])

uploadBuffer_resume(config, path, t) ==
    LET c == uploadBuffer_try(config, path, t)
    IN IF c.kind = "throw"
       THEN Return([success |-> FALSE,
                    error   |-> MessageOf(c.error, "Unknown upload error")])
       ELSE c

(***************************************************************************)
(* deleteFile(path)                                                        *)
(***************************************************************************)
deleteFile_begin(config, path) ==
    LET deleteUrl == ensureHTTPS(config.cdnUrl.v \o "/" \o config.storageZone.v
                                 \o "/" \o TemplateStr(path))
    IN Fetch([method  |-> "DELETE",
              url     |-> deleteUrl,
              headers |-> ("AccessKey" :> config.apiKey.v)])

deleteFile_try(config, path, t) ==
    IF t.kind = "throw" THEN Throw(t.error)
    ELSE IF ~ResponseOk(t.response)
    THEN Return([success |-> FALSE,
                 error   |-> "Delete failed: " \o StatusLine(t.response)])
    ELSE Return([success |-> TRUE])

\* a plausible slip: delete made 404-tolerant like list
deleteFile_tolerant(config, path, t) ==
    IF t.kind = "throw"
    THEN Return([success |-> FALSE, error |-> MessageOf(t.error, "Unknown delete error")])
    ELSE IF ~ResponseOk(t.response) /\ t.response.status # 404
    THEN Return([success |-> FALSE,
                 error   |-> "Delete failed: " \o StatusLine(t.response)])
    ELSE Return([success |-> TRUE])

deleteFile_resume(config, path, t) ==
    LET c == deleteFile_try(config, path, t)
    IN IF c.kind = "throw"
       THEN Return([success |-> FALSE,
                    error   |-> MessageOf(c.error, "Unknown delete error")])
       ELSE c

(***************************************************************************)
(* deleteFileByUrl(publicUrl, basePath)                                    *)
(***************************************************************************)
deleteFileByUrl_try(publicUrl, basePath) ==
    IF publicUrl.tag # "string"
    THEN Throw(TypeError("Cannot read properties of undefined (reading 'split')"))
    ELSE LET urlParts == Split(publicUrl.v, "/")
             filename == urlParts[Len(urlParts)]
         IN IF filename = ""
            THEN Return([success |-> FALSE,
                         error   |-> "Could not extract filename from URL"])
            ELSE LET fullPath == TemplateStr(basePath) \o "/" \o filename
                 IN Call("deleteFile", <<Str(fullPath)>>)

\* a plausible slip: the first part of the url is taken for the file name
deleteFileByUrl_first(publicUrl, basePath) ==
    IF publicUrl.tag # "string"
    THEN Return([success |-> FALSE,
                 error   |-> "TypeError: Cannot read properties of undefined (reading 'split')"])
    ELSE LET urlParts == Split(publicUrl.v, "/")
             filename == urlParts[1]
         IN IF filename = ""
            THEN Return([success |-> FALSE,
                         error   |-> "Could not extract filename from URL"])
            ELSE Call("deleteFile", <<Str(TemplateStr(basePath) \o "/" \o filename)>>)

deleteFileByUrl_begin(publicUrl, basePath) ==
    LET c == deleteFileByUrl_try(publicUrl, basePath)
    IN IF c.kind = "throw"
       THEN Return([success |-> FALSE,
                    error   |-> MessageOf(c.error, "Unknown delete error")])
       ELSE c

\* return await this.deleteFile(fullPath), inside the try
deleteFileByUrl_resume(c) ==
    IF c.kind = "throw"
    THEN Return([success |-> FALSE,
                 error   |-> MessageOf(c.error, "Unknown delete error")])
    ELSE c

(***************************************************************************)
(* listFiles(path = '')                                                    *)
(***************************************************************************)
Arr(items) == [tag |-> "array", items |-> items]

listFiles_begin(config, path) ==
    LET p == IF path = Undefined THEN "" ELSE path.v
        listUrl == buildHTTPSUrl(config.cdnUrl.v, config.storageZone.v \o "/" \o p)
    IN Fetch([method  |-> "GET",
              url     |-> listUrl,
              headers |-> ("AccessKey" :> config.apiKey.v)])

\* the callback of data.map, on an element that is neither null nor undefined
FileOf(p, file, now) ==
    LET name == OrElse(OrElse(Prop(file, "ObjectName"), Prop(file, "Name")), Str(""))
    IN [name         |-> name,
        path         |-> IF p # "" THEN Str(p \o "/" \o TemplateStr(name)) ELSE name,
        size         |-> OrElse(OrElse(Prop(file, "Length"), Prop(file, "Size")), Num(0)),
        lastModified |-> IF Truthy(Prop(file, "LastChanged"))
                         THEN DateOf(Prop(file, "LastChanged"))
                         ELSE DateOf(Num(now)),
        isDirectory  |-> OrElse(Prop(file, "IsDirectory"), Bool(FALSE))]

listFiles_try(config, path, t, now) ==
    LET p == IF path = Undefined THEN "" ELSE path.v
    IN IF t.kind = "throw" THEN Throw(t.error)
       ELSE IF ~ResponseOk(t.response)
       THEN IF t.response.status = 404
            THEN Return([success |-> TRUE, files |-> <<>>])
            ELSE Return([success |-> FALSE,
                         error   |-> "List files failed: " \o StatusLine(t.response)])
       ELSE IF t.json.kind = "throw" THEN Throw(t.json.error)
       ELSE LET data == t.json.value
            IN IF data.tag = "array"
               THEN IF \E i \in 1..Len(data.items) :
                          data.items[i].tag \in {"null", "undefined"}
                    THEN Throw(TypeError("Cannot read properties of null (reading 'ObjectName')"))
                    ELSE Return([success |-> TRUE,
                                 files   |-> [i \in 1..Len(data.items) |->
                                                FileOf(p, data.items[i], now)]])
               ELSE Return([success |-> TRUE, files |-> <<>>])

\* a plausible slip: the response is decoded and mapped outside the try block
listFiles_nocatch(config, path, t, now) ==
    IF t.kind = "throw"
    THEN Return([success |-> FALSE,
                 error   |-> MessageOf(t.error, "Unknown list files error")])
    ELSE listFiles_try(config, path, t, now)

listFiles_resume(config, path, t, now) ==
    LET c == listFiles_try(config, path, t, now)
    IN IF c.kind = "throw"
       THEN Return([success |-> FALSE,
                    error   |-> MessageOf(c.error, "Unknown list files error")])
       ELSE c

(***************************************************************************)
(* getFileInfo(path)                                                       *)
(***************************************************************************)
getFileInfo_begin(config, path) ==
    LET fileUrl == buildHTTPSUrl(config.cdnUrl.v,
                                 config.storageZone.v \o "/" \o TemplateStr(path))
    IN Fetch([method  |-> "HEAD",
              url     |-> fileUrl,
              headers |-> ("AccessKey" :> config.apiKey.v)])

getFileInfo_try(config, path, t, now) ==
    IF t.kind = "throw" THEN Throw(t.error)
    ELSE IF ~ResponseOk(t.response)
    THEN IF t.response.status = 404
         THEN Return([success |-> TRUE, fileInfo |-> Undefined])
         ELSE Return([success |-> FALSE,
                      error   |-> "Get file info failed: " \o StatusLine(t.response)])
    ELSE LET contentLength == HeadersGet(t.response.headers, "content-length")
             lastModified  == HeadersGet(t.response.headers, "last-modified")
         IN IF path.tag # "string"
            THEN Throw(TypeError("Cannot read properties of undefined (reading 'split')"))
            ELSE LET pathParts == Split(path.v, "/")
                     fileName  == pathParts[Len(pathParts)]
                 IN Return([success  |-> TRUE,
                            fileInfo |->
                              [name         |-> Str(fileName),
                               path         |-> path,
                               size         |-> IF Truthy(contentLength)
                                                THEN parseInt(contentLength.v)
                                                ELSE Num(0),
                               lastModified |-> IF Truthy(lastModified)
                                                THEN DateOf(lastModified)
                                                ELSE DateOf(Num(now)),
                               isDirectory  |-> Bool(FALSE)]])

getFileInfo_resume(config, path, t, now) ==
    LET c == getFileInfo_try(config, path, t, now)
    IN IF c.kind = "throw"
       THEN Return([success |-> FALSE,
                    error   |-> MessageOf(c.error, "Unknown get file info error")])
       ELSE c

(***************************************************************************)
(* fileExists(path)                                                        *)
(***************************************************************************)
fileExists_begin(path) == Call("getFileInfo", <<path>>)

\* the try block after this.getFileInfo(path) has settled with c
fileExists_try(c) ==
    IF c.kind = "throw" THEN Throw(c.error)
    ELSE LET fileInfo == c.value
         IN IF ~fileInfo.success
            THEN Return([exists |-> FALSE, error |-> fileInfo.error])
            ELSE Return([exists |-> fileInfo.fileInfo # Undefined
                                    /\ ~Truthy(fileInfo.fileInfo.isDirectory)])

\* a plausible slip: a successful getFileInfo is taken for existence
fileExists_success(c) ==
    IF c.kind = "throw"
    THEN Return([exists |-> FALSE,
                 error  |-> MessageOf(c.error, "Unknown error checking file existence")])
    ELSE IF ~c.value.success
    THEN Return([exists |-> FALSE, error |-> c.value.error])
    ELSE Return([exists |-> TRUE])

fileExists_resume(c) ==
    LET r == fileExists_try(c)
    IN IF r.kind = "throw"
       THEN Return([exists |-> FALSE,
                    error  |-> MessageOf(r.error, "Unknown error checking file existence")])
       ELSE r

(***************************************************************************)
(* uploadFromUrl(sourceUrl, destinationPath)                               *)
(***************************************************************************)
\* fetch(sourceUrl): no init, so a GET with no custom header and no body
uploadFromUrl_begin(sourceUrl) ==
    Fetch([method |-> "GET", url |-> sourceUrl, headers |-> NoHeaders])

\* the try block after the source fetch has settled with t
uploadFromUrl_try(destinationPath, t) ==
    IF t.kind = "throw" THEN Throw(t.error)
    ELSE IF ~ResponseOk(t.response)
    THEN Return([success |-> FALSE,
                 error   |-> "Failed to fetch source file: " \o StatusLine(t.response)])
    ELSE LET contentType == OrElse(HeadersGet(t.response.headers, "content-type"),
                                   Str("application/octet-stream"))
         IN IF t.arrayBuffer.kind = "throw" THEN Throw(t.arrayBuffer.error)
            ELSE Call("uploadBuffer",
                      <<t.arrayBuffer.value, destinationPath, contentType>>)

\* a plausible slip: the source response is uploaded whatever its status
uploadFromUrl_unchecked(destinationPath, t) ==
    IF t.kind = "throw"
    THEN Return([success |-> FALSE,
                 error   |-> MessageOf(t.error, "Unknown upload from URL error")])
    ELSE IF t.arrayBuffer.kind = "throw"
    THEN Return([success |-> FALSE,
                 error   |-> MessageOf(t.arrayBuffer.error, "Unknown upload from URL error")])
    ELSE Call("uploadBuffer",
              <<t.arrayBuffer.value, destinationPath,
                OrElse(HeadersGet(t.response.headers, "content-type"),
                       Str("application/octet-stream"))>>)

uploadFromUrl_source(destinationPath, t) ==
    LET c == uploadFromUrl_try(destinationPath, t)
    IN IF c.kind = "throw"
       THEN Return([success |-> FALSE,
                    error   |-> MessageOf(c.error, "Unknown upload from URL error")])
       ELSE c

\* return await this.uploadBuffer(...), inside the try
uploadFromUrl_resume(c) ==
    IF c.kind = "throw"
    THEN Return([success |-> FALSE,
                 error   |-> MessageOf(c.error, "Unknown upload from URL error")])
    ELSE c

(***************************************************************************)
(* The inputs the embedding application and the network may supply.        *)
(***************************************************************************)
StorageZones == {Undefined, Str(""), Str("zone")}
ApiKeys      == {Undefined, Str(""), Str("key")}
CdnUrls      == {Undefined, Str(""), Str("https://st.io"), Str("st.io/"), Str("http://st.io")}
PullZoneUrls == {Undefined, Str(""), Str("https://cdn.io"), Str("cdn.io/")}

Configs == [storageZone : StorageZones, apiKey : ApiKeys,
            cdnUrl : CdnUrls, pullZoneUrl : PullZoneUrls]

Paths        == {Undefined, Str(""), Str("a.jpg"), Str("dir/a.jpg"), Str("/dir/a.jpg"), Str("dir/")}
ContentTypes == {Undefined, Str("image/png")}
Buffers      == {[tag |-> "buffer", bytes |-> "JPEG"]}
PublicUrls   == {Undefined, Str(""), Str("/"), Str("name.jpg"),
                 Str("https://cdn.io/dir/name.jpg"), Str("https://cdn.io/dir/")}
BasePaths    == {Undefined, Str(""), Str("dir")}
SourceUrls   == {"https://ex.org/pic.png", "http://ex.org/x"}

\* HTTP statuses with their reason phrases
ReasonPhrase == (200 :> "OK") @@ (204 :> "No Content") @@ (301 :> "Moved Permanently")
                @@ (404 :> "Not Found") @@ (500 :> "Internal Server Error")
Statuses == DOMAIN ReasonPhrase

\* values a fetch may reject with
Thrown == {ErrorObj("fetch failed"), NonError}

ResponseOf(status, headers) ==
    [status |-> status, statusText |-> ReasonPhrase[status], headers |-> headers]

\* the instants `new Date()` may read
Clock == 1..MaxClock

\* elements of a JSON array answered to a list request
ListElements ==
    { Null,
      Num(7),
      Obj(("ObjectName" :> Str("a.jpg")) @@ ("Length" :> Num(12))
          @@ ("LastChanged" :> Str("2024-01-01T00:00:00")) @@ ("IsDirectory" :> Bool(FALSE))),
      Obj(("ObjectName" :> Str("sub")) @@ ("Length" :> Num(0)) @@ ("IsDirectory" :> Bool(TRUE))),
      Obj(("Name" :> Str("b.png")) @@ ("Size" :> Num(3))) }

RECURSIVE SeqsUpTo(_, _)
SeqsUpTo(S, n) ==
    IF n = 0 THEN {<<>>}
    ELSE LET shorter == SeqsUpTo(S, n - 1)
         IN shorter \cup {Append(q, x) : q \in shorter, x \in S}

\* what response.json() may give
JsonOutcomes ==
    {Throw(ErrorObj("Unexpected token < in JSON")), Return(Null),
     Return(Obj(("Message" :> Str("hello"))))}
    \cup {Return(Arr(items)) : items \in SeqsUpTo(ListElements, MaxFiles)}

\* what response.arrayBuffer() may give
BodyOutcomes ==
    {Throw(ErrorObj("terminated")), Return([tag |-> "buffer", bytes |-> "PNG"])}

HeadHeaders ==
    {NoHeaders, ("content-length" :> "12"),
     ("content-length" :> "12") @@ ("last-modified" :> "Mon, 01 Jan 2024 00:00:00 GMT"),
     ("content-length" :> "abc")}

SourceHeaders == {NoHeaders, ("content-type" :> "image/png")}

\* how a fetch may settle: rejected, or resolved with a response
Settled(headerSets) ==
    {[kind |-> "throw", error |-> e] : e \in Thrown}
    \cup {[kind |-> "response", response |-> ResponseOf(st, h)] :
            st \in Statuses, h \in headerSets}

\* the body of a response that is not ok is never read
ListSettled ==
    {[kind |-> "throw", error |-> e] : e \in Thrown}
    \cup {[kind |-> "response", response |-> ResponseOf(st, NoHeaders), json |-> j] :
            st \in {x \in Statuses : ~ResponseOk([status |-> x])}, j \in {Return(Null)}}
    \cup {[kind |-> "response", response |-> ResponseOf(st, NoHeaders), json |-> j] :
            st \in {x \in Statuses : ResponseOk([status |-> x])}, j \in JsonOutcomes}

SourceSettled ==
    {[kind |-> "throw", error |-> e] : e \in Thrown}
    \cup {[kind |-> "response", response |-> ResponseOf(st, h), arrayBuffer |-> b] :
            st \in Statuses, h \in SourceHeaders, b \in BodyOutcomes}

(***************************************************************************)
(* State.                                                                  *)
(***************************************************************************)
VARIABLES
    client,     \* the constructed client, [config |-> ...], or Undefined
    call,       \* the operation the application invoked last: [method, args]
    frame,      \* the method whose fetch is in flight: [method, args]
    pc,         \* "idle", "awaiting" (a fetch is in flight) or "done"
    issued,     \* the requests the current operation has passed to fetch, in order
    received,   \* how those fetches settled, in order
    inner,      \* the completion of the method the current call delegated to
    outcome,    \* the completion of the current operation
    util        \* the last call of an exported URL helper: [fn, args, ret]

vars == <<client, call, frame, pc, issued, received, inner, outcome, util>>

clientVars == <<client, call, frame, pc, issued, received, inner, outcome>>

NoCall       == [method |-> "none", args |-> <<>>]
NoFrame      == [method |-> "none", args |-> <<>>]
Pending      == [kind |-> "pending"]
NoCompletion == [kind |-> "none"]

Init ==
    /\ client = Undefined
    /\ call = NoCall
    /\ frame = NoFrame
    /\ pc = "idle"
    /\ issued = <<>>
    /\ received = <<>>
    /\ inner = NoCompletion
    /\ outcome = NoCompletion
    /\ util = [fn |-> "none"]

\* the application holds a client and is not in the middle of a call
Ready == client # Undefined /\ pc # "awaiting"

\* the first step of the method a public method delegates to
DelegateBegin(config, m, args) ==
    CASE m = "deleteFile"   -> deleteFile_begin(config, args[1])
      [] m = "getFileInfo"  -> getFileInfo_begin(config, args[1])
      [] m = "uploadBuffer" -> uploadBuffer_begin(config, args[1], args[2], args[3])

\* a public method starts and runs up to its first wait, or to its return
Begin(method, args, s) ==
    /\ call' = [method |-> method, args |-> args]
    /\ received' = <<>>
    /\ inner' = NoCompletion
    /\ IF s.kind = "fetch"
       THEN /\ issued' = <<s.request>>
            /\ frame' = [method |-> method, args |-> args]
            /\ pc' = "awaiting"
            /\ outcome' = Pending
       ELSE IF s.kind = "call"
       THEN /\ issued' = <<DelegateBegin(client.config, s.method, s.args).request>>
            /\ frame' = [method |-> s.method, args |-> s.args]
            /\ pc' = "awaiting"
            /\ outcome' = Pending
       ELSE /\ issued' = <<>>
            /\ frame' = NoFrame
            /\ pc' = "done"
            /\ outcome' = s
    /\ UNCHANGED <<client, util>>

\* the fetch in flight settles with t and the call runs to its return
Finish(t, c, out) ==
    /\ received' = Append(received, t)
    /\ inner' = IF frame.method = call.method THEN inner ELSE c
    /\ outcome' = out
    /\ frame' = NoFrame
    /\ pc' = "done"
    /\ UNCHANGED <<client, call, issued, util>>

(***************************************************************************)
(* Actions of the client.                                                  *)
(***************************************************************************)
\* new BunnyCDNClient(config)
Construct(config) ==
    /\ client = Undefined
    /\ pc # "awaiting"
    /\ LET c == constructor(config)
       IN /\ client' = IF c.kind = "return" THEN [config |-> c.value] ELSE Undefined
          /\ outcome' = IF c.kind = "return" THEN Return("client") ELSE c
    /\ call' = [method |-> "constructor", args |-> <<config>>]
    /\ frame' = NoFrame
    /\ pc' = "done"
    /\ issued' = <<>>
    /\ received' = <<>>
    /\ inner' = NoCompletion
    /\ UNCHANGED util

CallUploadBuffer(buffer, path, contentType) ==
    /\ Ready
    /\ Begin("uploadBuffer", <<buffer, path, contentType>>,
             uploadBuffer_begin(client.config, buffer, path, contentType))

CallDeleteFile(path) ==
    /\ Ready
    /\ Begin("deleteFile", <<path>>, deleteFile_begin(client.config, path))

CallDeleteFileByUrl(publicUrl, basePath) ==
    /\ Ready
    /\ Begin("deleteFileByUrl", <<publicUrl, basePath>>,
             deleteFileByUrl_begin(publicUrl, basePath))

CallListFiles(path) ==
    /\ Ready
    /\ Begin("listFiles", <<path>>, listFiles_begin(client.config, path))

CallFileExists(path) ==
    /\ Ready
    /\ Begin("fileExists", <<path>>, fileExists_begin(path))

CallGetFileInfo(path) ==
    /\ Ready
    /\ Begin("getFileInfo", <<path>>, getFileInfo_begin(client.config, path))

\* a plausible slip: the source is fetched with the headers of the storage requests
CallUploadFromUrl_leaks(sourceUrl, destinationPath) ==
    /\ Ready
    /\ Begin("uploadFromUrl", <<sourceUrl, destinationPath>>,
             Fetch([method  |-> "GET",
                    url     |-> sourceUrl,
                    headers |-> ("AccessKey" :> client.config.apiKey.v)]))

CallUploadFromUrl(sourceUrl, destinationPath) ==
    /\ Ready
    /\ Begin("uploadFromUrl", <<sourceUrl, destinationPath>>,
             uploadFromUrl_begin(sourceUrl))

\* the PUT of uploadBuffer settles
PutSettles(t) ==
    /\ pc = "awaiting"
    /\ frame.method = "uploadBuffer"
    /\ LET c == uploadBuffer_resume(client.config, frame.args[2], t)
       IN Finish(t, c, IF call.method = "uploadFromUrl" THEN uploadFromUrl_resume(c) ELSE c)

\* the DELETE of deleteFile settles
DeleteSettles(t) ==
    /\ pc = "awaiting"
    /\ frame.method = "deleteFile"
    /\ LET c == deleteFile_resume(client.config, frame.args[1], t)
       IN Finish(t, c, IF call.method = "deleteFileByUrl" THEN deleteFileByUrl_resume(c) ELSE c)

\* the GET of listFiles settles
ListSettles(t, now) ==
    /\ pc = "awaiting"
    /\ frame.method = "listFiles"
    /\ LET c == listFiles_resume(client.config, frame.args[1], t, now)
       IN Finish(t, c, c)

\* the HEAD of getFileInfo settles
HeadSettles(t, now) ==
    /\ pc = "awaiting"
    /\ frame.method = "getFileInfo"
    /\ LET c == getFileInfo_resume(client.config, frame.args[1], t, now)
       IN Finish(t, c, IF call.method = "fileExists" THEN fileExists_resume(c) ELSE c)

\* the GET of uploadFromUrl to the source settles; on success the upload starts
SourceSettles(t) ==
    /\ pc = "awaiting"
    /\ frame.method = "uploadFromUrl"
    /\ LET s == uploadFromUrl_source(frame.args[2], t)
       IN IF s.kind = "call"
          THEN /\ received' = Append(received, t)
               /\ issued' = Append(issued,
                                   DelegateBegin(client.config, s.method, s.args).request)
               /\ frame' = [method |-> s.method, args |-> s.args]
               /\ UNCHANGED <<client, call, pc, inner, outcome, util>>
          ELSE Finish(t, s, s)

Next ==
    \/ \E config \in Configs : Construct(config)
    \/ \E b \in Buffers, p \in Paths, ct \in ContentTypes : CallUploadBuffer(b, p, ct)
    \/ \E p \in Paths : CallDeleteFile(p)
    \/ \E u \in PublicUrls, b \in BasePaths : CallDeleteFileByUrl(u, b)
    \/ \E p \in Paths : CallListFiles(p)
    \/ \E p \in Paths : CallFileExists(p)
    \/ \E p \in Paths : CallGetFileInfo(p)
    \/ \E u \in SourceUrls, p \in Paths : CallUploadFromUrl(u, p)
    \/ \E t \in Settled({NoHeaders}) : PutSettles(t)
    \/ \E t \in Settled({NoHeaders}) : DeleteSettles(t)
    \/ \E t \in ListSettled, now \in Clock : ListSettles(t, now)
    \/ \E t \in Settled(HeadHeaders), now \in Clock : HeadSettles(t, now)
    \/ \E t \in SourceSettled : SourceSettles(t)

Spec == Init /\ [][Next]_vars

(***************************************************************************)
(* The exported URL helpers, called by the application directly            *)
(* (src/src/index.ts exports ensureHTTPS and buildHTTPSUrl).               *)
(***************************************************************************)
Pieces == {"http://", "https://", "/", "a"}

\* the strings made of at most n pieces
RECURSIVE Strings(_)
Strings(n) ==
    IF n = 0 THEN {""}
    ELSE LET shorter == Strings(n - 1)
         IN shorter \cup {q \o x : q \in shorter, x \in Pieces}

UrlInputs  == Strings(MaxUrlPieces)
PathInputs == Strings(MaxPathPieces)

\* The helpers are pure and keep nothing between calls: a run of UrlSpec follows
\* one call from the start, and then the reapplications of the helper to its result.
CallEnsureHTTPS ==
    /\ util.fn = "none"
    /\ \E url \in UrlInputs :
          util' = [fn |-> "ensureHTTPS", args |-> <<url>>, ret |-> ensureHTTPS(url),
                   fed |-> FALSE]
    /\ UNCHANGED clientVars

\* ensureHTTPS applied to what it returned
ReapplyEnsureHTTPS ==
    /\ util.fn = "ensureHTTPS"
    /\ util' = [fn |-> "ensureHTTPS", args |-> <<util.ret>>,
                ret |-> ensureHTTPS(util.ret), fed |-> TRUE]
    /\ UNCHANGED clientVars

CallBuildHTTPSUrl ==
    /\ util.fn = "none"
    /\ \E baseUrl \in UrlInputs, path \in PathInputs :
          util' = [fn |-> "buildHTTPSUrl", args |-> <<baseUrl, path>>,
                   ret |-> buildHTTPSUrl(baseUrl, path), fed |-> FALSE]
    /\ UNCHANGED clientVars

\* buildHTTPSUrl applied to what it returned, with an empty second argument
ReapplyBuildHTTPSUrl ==
    /\ util.fn = "buildHTTPSUrl"
    /\ util' = [fn |-> "buildHTTPSUrl", args |-> <<util.ret, "">>,
                ret |-> buildHTTPSUrl(util.ret, ""), fed |-> TRUE]
    /\ UNCHANGED clientVars

UrlNext ==
    \/ CallEnsureHTTPS
    \/ ReapplyEnsureHTTPS
    \/ CallBuildHTTPSUrl
    \/ ReapplyBuildHTTPSUrl

UrlSpec == Init /\ [][UrlNext]_vars

(***************************************************************************)
(* Properties of the URL helpers (checked under UrlSpec).                  *)
(***************************************************************************)
\* C7 as stated: buildHTTPSUrl applied to its own output with an empty second
\* argument yields the same string, for every base and path.
C7_BuildIdempotent ==
    (util.fn = "buildHTTPSUrl" /\ util.fed) => util.ret = util.args[1]

\* C7 amended: buildHTTPSUrl applied to its own output with an empty second
\* argument yields that output unchanged when it ends with "/", and that output
\* with one "/" appended when it does not.
C7_BuildReapplied ==
    (util.fn = "buildHTTPSUrl" /\ util.fed) =>
        util.ret = IF EndsWith(util.args[1], "/")
                   THEN util.args[1]
                   ELSE util.args[1] \o "/"

\* buildHTTPSUrl was applied to an output of its own that does not end with "/"
C7_Witness ==
    /\ util.fn = "buildHTTPSUrl"
    /\ util.fed
    /\ util.args[1] = "https://a/a"
    /\ util.ret = "https://a/a/"

PublicMethods == {"uploadBuffer", "deleteFile", "deleteFileByUrl", "listFiles",
                  "fileExists", "getFileInfo", "uploadFromUrl"}

\* the current operation is a call of method m that has returned or thrown
Done(m) == pc = "done" /\ call.method = m

\* a fetch settled without a 2xx response
Failed(t) == t.kind = "throw" \/ ~(t.response.status \in 200..299)

\* a fetch settled with a response of the given status
Answered(t, status) == t.kind = "response" /\ t.response.status = status

\* a result record that reports failure with an error text
FailureResult(r) ==
    /\ "error" \in DOMAIN r
    /\ \/ "success" \in DOMAIN r /\ ~r.success
       \/ "exists" \in DOMAIN r /\ ~r.exists

\* C1: a call of a public method never ends by throwing: it returns a result
\* value, whatever the arguments and however the requests settle.
C1_NoThrow ==
    (pc = "done" /\ call.method \in PublicMethods) =>
        /\ outcome.kind = "return"
        /\ \/ "success" \in DOMAIN outcome.value
           \/ "exists" \in DOMAIN outcome.value

\* listFiles returned although an element of the answered list was null
C1_Witness ==
    /\ Done("listFiles")
    /\ received[1].kind = "response"
    /\ received[1].response.status = 200
    /\ received[1].json = Return(Arr(<<Null>>))
    /\ outcome.kind = "return"
    /\ outcome.value.success = FALSE

\* C2: a 404 makes deleteFile fail and makes listFiles succeed with an empty
\* list and no error; any other non-2xx status makes both fail.
C2_NotFound ==
    /\ (Done("deleteFile") /\ Answered(received[1], 404)) =>
          /\ outcome.kind = "return"
          /\ outcome.value.success = FALSE
          /\ "error" \in DOMAIN outcome.value
    /\ (Done("listFiles") /\ Answered(received[1], 404)) =>
          outcome = Return([success |-> TRUE, files |-> <<>>])
    /\ ((Done("deleteFile") \/ Done("listFiles"))
        /\ received[1].kind = "response"
        /\ ~(received[1].response.status \in 200..299)
        /\ received[1].response.status # 404) =>
          /\ outcome.kind = "return"
          /\ outcome.value.success = FALSE
          /\ "error" \in DOMAIN outcome.value

\* deleteFile was answered 404 and reported the failure
C2_Witness ==
    /\ Done("deleteFile")
    /\ Answered(received[1], 404)
    /\ outcome = Return([success |-> FALSE, error |-> "Delete failed: 404 Not Found"])

\* C3: fileExists follows getFileInfo on the same HEAD outcome: exists is true
\* exactly when getFileInfo succeeded with a FileInfo that is no directory; a 404
\* gives getFileInfo success with no FileInfo and fileExists exists=false with no
\* error; a failure of getFileInfo gives exists=false with the same error text.
C3_ExistsFollowsInfo ==
    /\ (Done("getFileInfo") \/ Done("fileExists")) =>
          LET t == received[1]
              g == IF call.method = "getFileInfo" THEN outcome ELSE inner
          IN /\ g.kind = "return"
             /\ Answered(t, 404) => g.value = [success |-> TRUE, fileInfo |-> Undefined]
             /\ (Failed(t) /\ ~Answered(t, 404)) =>
                   (~g.value.success /\ "error" \in DOMAIN g.value)
             /\ t.kind = "throw" => g.value.error = MessageOf(t.error, "Unknown get file info error")
    /\ Done("fileExists") =>
          LET t == received[1]
              g == inner.value
              r == outcome.value
          IN /\ outcome.kind = "return"
             /\ r.exists <=> (/\ g.success
                              /\ g.fileInfo # Undefined
                              /\ g.fileInfo.isDirectory = Bool(FALSE))
             /\ Answered(t, 404) => r = [exists |-> FALSE]
             /\ ~g.success => r = [exists |-> FALSE, error |-> g.error]
             /\ g.success => ~("error" \in DOMAIN r)

\* fileExists was answered 404 and reported absence without an error
C3_Witness ==
    /\ Done("fileExists")
    /\ Answered(received[1], 404)
    /\ inner = Return([success |-> TRUE, fileInfo |-> Undefined])
    /\ outcome = Return([exists |-> FALSE])

\* C4: uploadFromUrl issues its PUT only after the GET to sourceUrl was answered
\* with a 2xx status; when that GET is answered otherwise or throws, the call
\* issues no upload request and returns a failure result.
C4_UploadAfterSource ==
    call.method = "uploadFromUrl" =>
        /\ \A i \in 1..Len(issued) :
              issued[i].method = "PUT" =>
                 /\ i = 2
                 /\ issued[1].method = "GET"
                 /\ issued[1].url = call.args[1]
                 /\ Len(received) >= 1
                 /\ received[1].kind = "response"
                 /\ received[1].response.status \in 200..299
        /\ (Len(received) >= 1 /\ Failed(received[1])) =>
              /\ pc = "done"
              /\ Len(issued) = 1
              /\ outcome.kind = "return"
              /\ outcome.value.success = FALSE

\* the source answered 404 and the call returned without an upload request
C4_Witness ==
    /\ Done("uploadFromUrl")
    /\ Answered(received[1], 404)
    /\ Len(issued) = 1
    /\ outcome = Return([success |-> FALSE,
                         error   |-> "Failed to fetch source file: 404 Not Found"])

\* C5: uploadBuffer answered with a 2xx status returns success with the url
\* buildHTTPSUrl(pullZoneUrl, path); answered with another status it returns
\* success=false, no url, and an error text that contains the status code.
C5_UploadResult ==
    (Done("uploadBuffer") /\ received[1].kind = "response" /\ call.args[2].tag = "string") =>
        LET response == received[1].response
            path     == call.args[2].v
        IN IF response.status \in 200..299
           THEN outcome = Return([success |-> TRUE,
                                  url |-> buildHTTPSUrl(client.config.pullZoneUrl.v, path)])
           ELSE /\ outcome.kind = "return"
                /\ outcome.value.success = FALSE
                /\ ~("url" \in DOMAIN outcome.value)
                /\ Includes(outcome.value.error, ToString(response.status))

\* uploadBuffer was answered 500 and the error text names the status
C5_Witness ==
    /\ Done("uploadBuffer")
    /\ Answered(received[1], 500)
    /\ call.args[2] = Str("/dir/a.jpg")
    /\ Includes(outcome.value.error, "500")

\* the text after the last "/" of s (all of s when it holds none)
AfterLastSlash(s) ==
    LET k == CHOOSE n \in 0..Len(s) :
                /\ ~Includes(SubSeq(s, Len(s) - n + 1, Len(s)), "/")
                /\ (n = Len(s) \/ SubSeq(s, Len(s) - n, Len(s) - n) = "/")
    IN SubSeq(s, Len(s) - k + 1, Len(s))

\* C6: deleteFileByUrl(publicUrl, basePath) behaves as
\* deleteFile(basePath + "/" + lastSegment(publicUrl)): with a non-empty last
\* segment it issues that one DELETE request and returns that result; with an
\* empty one it returns a failure and issues no request.
C6_DeleteByUrl ==
    (call.method = "deleteFileByUrl" /\ call.args[1].tag = "string") =>
        LET segment == AfterLastSlash(call.args[1].v)
            path    == Str(TemplateStr(call.args[2]) \o "/" \o segment)
        IN IF segment # ""
           THEN /\ issued = <<deleteFile_begin(client.config, path).request>>
                /\ pc = "awaiting" => received = <<>>
                /\ pc = "done" =>
                      /\ Len(received) = 1
                      /\ outcome = deleteFile_resume(client.config, path, received[1])
           ELSE /\ pc = "done"
                /\ issued = <<>>
                /\ outcome.kind = "return"
                /\ outcome.value.success = FALSE

\* deleteFileByUrl of a public url sent the DELETE of deleteFile("dir/name.jpg")
C6_Witness ==
    /\ Done("deleteFileByUrl")
    /\ call.args = <<Str("https://cdn.io/dir/name.jpg"), Str("dir")>>
    /\ client.config.cdnUrl = Str("https://st.io")
    /\ issued = <<[method |-> "DELETE", url |-> "https://st.io/zone/dir/name.jpg",
                   headers |-> ("AccessKey" :> "key")]>>
    /\ outcome = Return([success |-> TRUE])

\* a configuration field that is empty or absent
Missing(x) == x = Undefined \/ x = Str("")

\* C9: constructing with one of the four fields empty or absent throws a
\* configuration error and yields no client; with all four non-empty it yields
\* a client holding the configuration; neither issues a network request.
C9_Construction ==
    call.method = "constructor" =>
        LET config == call.args[1]
        IN /\ issued = <<>>
           /\ received = <<>>
           /\ pc = "done"
           /\ IF \/ Missing(config.storageZone) \/ Missing(config.apiKey)
                 \/ Missing(config.cdnUrl) \/ Missing(config.pullZoneUrl)
              THEN /\ outcome.kind = "throw"
                   /\ outcome.error.isError
                   /\ client = Undefined
              ELSE /\ outcome.kind = "return"
                   /\ client = [config |-> config]

\* construction with only pullZoneUrl empty threw
C9_Witness ==
    /\ call.method = "constructor"
    /\ call.args[1] = [storageZone |-> Str("zone"), apiKey |-> Str("key"),
                       cdnUrl |-> Str("https://st.io"), pullZoneUrl |-> Str("")]
    /\ outcome.kind = "throw"
    /\ client = Undefined
    /\ issued = <<>>

\* how many requests a call of each method issues, and in what order
RequestCounts ==
    /\ (call.method \in {"uploadBuffer", "deleteFile", "listFiles", "getFileInfo", "fileExists"}) =>
          Len(issued) = 1
    /\ call.method = "deleteFileByUrl" => Len(issued) <= 1
    /\ call.method = "uploadFromUrl" =>
          /\ Len(issued) \in {1, 2}
          /\ issued[1].method = "GET"
          /\ Len(issued) = 2 => (issued[2].method = "PUT" /\ Len(received) >= 1)
    /\ call.method \in PublicMethods =>
          /\ pc = "awaiting" => Len(issued) = Len(received) + 1
          /\ pc = "done" => Len(issued) = Len(received)

\* C10 as stated: the request counts, and after any non-2xx response or transport
\* exception the call issues no further request and returns a failure result.
C10_FailureAfterAnyNon2xx ==
    /\ RequestCounts
    /\ (call.method \in PublicMethods /\ received # <<>>
        /\ Failed(received[Len(received)])) =>
          /\ pc = "done"
          /\ Len(issued) = Len(received)
          /\ outcome.kind = "return"
          /\ FailureResult(outcome.value)

\* C10 amended: the request counts, and after any non-2xx response or transport
\* exception the call issues no further request and returns at once: a failure
\* result, except that a 404 makes listFiles return success with an empty list,
\* getFileInfo success with no FileInfo, and fileExists exists=false with no error.
C10_NoRetry ==
    /\ RequestCounts
    /\ (call.method \in PublicMethods /\ received # <<>>
        /\ Failed(received[Len(received)])) =>
          /\ pc = "done"
          /\ Len(issued) = Len(received)
          /\ outcome.kind = "return"
          /\ IF Answered(received[Len(received)], 404)
                /\ call.method \in {"listFiles", "getFileInfo", "fileExists"}
             THEN outcome.value =
                    CASE call.method = "listFiles"   -> [success |-> TRUE, files |-> <<>>]
                      [] call.method = "getFileInfo" -> [success |-> TRUE, fileInfo |-> Undefined]
                      [] call.method = "fileExists"  -> [exists |-> FALSE]
             ELSE FailureResult(outcome.value)

\* the PUT of uploadFromUrl, its second request, failed and the call returned
\* a failure without a third request
C10_Witness ==
    /\ Done("uploadFromUrl")
    /\ Len(issued) = 2
    /\ Len(received) = 2
    /\ Answered(received[2], 500)
    /\ outcome.value.success = FALSE

\* C11: every request to the storage API (PUT, DELETE, GET of listFiles, HEAD)
\* carries the header AccessKey with the configured apiKey, and the GET that
\* uploadFromUrl sends to sourceUrl carries no header at all.
C11_AccessKeyOnlyToStorage ==
    call.method \in PublicMethods =>
        \A i \in 1..Len(issued) :
            IF call.method = "uploadFromUrl" /\ i = 1
            THEN /\ issued[i].method = "GET"
                 /\ issued[i].url = call.args[1]
                 /\ DOMAIN issued[i].headers = {}
            ELSE /\ issued[i].method \in {"PUT", "DELETE", "GET", "HEAD"}
                 /\ "AccessKey" \in DOMAIN issued[i].headers
                 /\ issued[i].headers["AccessKey"] = client.config.apiKey.v

\* uploadFromUrl fetched the source without a header and then sent the PUT with
\* the access key
C11_Witness ==
    /\ call.method = "uploadFromUrl"
    /\ Len(issued) = 2
    /\ issued[1] = [method |-> "GET", url |-> "http://ex.org/x", headers |-> NoHeaders]
    /\ issued[2].method = "PUT"
    /\ issued[2].headers["AccessKey"] = "key"

\* C12: for every valid configuration and every path, deleteFile(path) sends its
\* DELETE to the URL that uploadBuffer(_, path) sends its PUT to and that
\* getFileInfo(path) sends its HEAD to.
C12_SameObjectUrl ==
    (call.method = "deleteFile" /\ call.args[1].tag = "string") =>
        LET path   == call.args[1]
            buffer == CHOOSE b \in Buffers : TRUE
        IN /\ issued[1].method = "DELETE"
           /\ issued[1].url =
                uploadBuffer_begin(client.config, buffer, path, Undefined).request.url
           /\ issued[1].url = getFileInfo_begin(client.config, path).request.url

====
